---- MODULE Spec2Model ----
(***************************************************************************)
(* CT vs MRI analyzer: the page (src/unnamed/part_000, the Next.js page    *)
(* component) and the image pipeline (src/app/utils/analyze.ts).           *)
(*                                                                         *)
(* Buffers are flat sequences of bytes, four per pixel, as the code's      *)
(* Uint8ClampedArray; the code's 0-based index i is position i + 1 here    *)
(* (see At).  Real-valued quantities are held exactly where they are       *)
(* rational with a small denominator (luma sums, variances) and in fixed   *)
(* point where the code calls a transcendental library function.           *)
(***************************************************************************)
EXTENDS Integers, Sequences, FiniteSets, TLC

VARIABLES
    imageUrl,       \* part_000:6   useState<string | null>
    result,         \* part_000:7   useState<AnalysisResult | null>
    isProcessing,   \* part_000:12  useState(false)
    error,          \* part_000:13  useState<string | null>
    canvas,         \* part_000:15  canvasRef.current, the "Preprocessed" canvas
    heatmap,        \* part_000:16  heatmapRef.current, the "Heatmap" canvas
    microtasks,     \* continuations of onAnalyze queued by its awaits
    ctx2d,          \* which canvas yields a 2D context (analyze.ts:8)
    width,          \* argument of the function under check
    height,         \* argument of the function under check
    data,           \* argument buffer of the function under check
    input,          \* the argument buffer as it was handed in
    out,            \* value the function returned
    done            \* the function has returned

vars == <<imageUrl, result, isProcessing, error, canvas, heatmap, microtasks,
          ctx2d, width, height, data, input, out, done>>

pageVars == <<imageUrl, result, isProcessing, error, canvas, heatmap,
              microtasks, ctx2d>>

callVars == <<width, height, data, input, out, done>>

(***************************************************************************)
(* Arithmetic helpers                                                      *)
(***************************************************************************)

\* Math.max / Math.min
Max(a, b) == IF a >= b THEN a ELSE b

Min(a, b) == IF a <= b THEN a ELSE b

Abs(a) == IF a < 0 THEN -a ELSE a

\* Math.round of the rational num/den (den > 0): floor(num/den + 1/2), the
\* nearest integer with ties towards +infinity (a tie needs an even den).
Round(num, den) == (num + den \div 2) \div den

\* A store into a Uint8ClampedArray element: clamp to 0..255 (the value
\* stored is already an integer wherever the code stores one).
ToUint8Clamped(v) == Max(0, Min(255, v))

\* data[i] with the code's 0-based index
At(buf, i) == buf[i + 1]

\* The sum of s[lo .. hi], by halves
RECURSIVE SumRange(_, _, _)
SumRange(s, lo, hi) ==
    IF lo > hi THEN 0
    ELSE IF lo = hi THEN s[lo]
    ELSE LET mid == (lo + hi) \div 2
         IN  SumRange(s, lo, mid) + SumRange(s, mid + 1, hi)

SumSeq(s) == SumRange(s, 1, Len(s))

\* The sequence with the elements of f, each evaluated once (the value is f:
\* this only makes TLC hold the array rather than the expression for it)
Array(f) == f \o <<>>

RECURSIVE MinSeq(_)
MinSeq(s) == IF Len(s) = 1 THEN s[1] ELSE Min(s[1], MinSeq(Tail(s)))

RECURSIVE MaxSeq(_)
MaxSeq(s) == IF Len(s) = 1 THEN s[1] ELSE Max(s[1], MaxSeq(Tail(s)))

\* The buffers of n pixels whose channels are drawn from rs (red), gs, bs, as.
RECURSIVE Buffers(_, _, _, _, _)
Buffers(n, rs, gs, bs, as) ==
    IF n = 0 THEN {<<>>}
    ELSE {<<r, g, b, a>> \o rest :
            r \in rs, g \in gs, b \in bs, a \in as,
            rest \in Buffers(n - 1, rs, gs, bs, as)}

\* The gray buffers (R = G = B) of n pixels, lumas from ys and alphas from as.
RECURSIVE GrayBuffers(_, _, _)
GrayBuffers(n, ys, as) ==
    IF n = 0 THEN {<<>>}
    ELSE {<<y, y, y, a>> \o rest :
            y \in ys, a \in as, rest \in GrayBuffers(n - 1, ys, as)}

\* Channel c (0..3) of pixel p (0-based) of a buffer
Chan(buf, p, c) == At(buf, 4 * p + c)

Pixels(buf) == 0 .. (Len(buf) \div 4) - 1

(***************************************************************************)
(* toGrayscale, analyze.ts:13-25                                           *)
(***************************************************************************)

\* Channel values the checked buffers are built from
ChannelSamples == {0, 100, 255}

AlphaSamples == {0, 200}

\* 0.2126*r + 0.7152*g + 0.0722*b, times 10000
LumaNum(r, g, b) == 2126 * r + 7152 * g + 722 * b

\* line 20: y = Math.round(0.2126 * r + 0.7152 * g + 0.0722 * b)
toGrayscaleLumaNoRound(r, g, b) == LumaNum(r, g, b) \div 10000

toGrayscaleLuma(r, g, b) == Round(LumaNum(r, g, b), 10000)

\* lines 14-24: a fresh array, luma in R, G and B, alpha copied
toGrayscale(d) ==
    Array([k \in 1 .. Len(d) |->
        LET i == 4 * ((k - 1) \div 4)
            r == At(d, i)
            g == At(d, i + 1)
            b == At(d, i + 2)
            a == At(d, i + 3)
            y == toGrayscaleLuma(r, g, b)
        IN  IF (k - 1) % 4 = 3 THEN ToUint8Clamped(a) ELSE ToUint8Clamped(y)])

MaxGrayPixels == 2

\* A canvas element as mounted: 300 x 150, transparent.  image = <<>> is the
\* blank bitmap; of names the file whose image the bitmap was computed from.
NewCanvas == [width |-> 300, height |-> 150, image |-> <<>>, of |-> "null"]

\* A canvas after its width and height were assigned (analyze.ts:134-135,
\* 206-207): the bitmap is reset
ResetCanvas(w, h) == [width |-> w, height |-> h, image |-> <<>>, of |-> "null"]

\* The page as mounted, while one of the functions of analyze.ts is looked at
\* on its own
InitPageIdle ==
    /\ imageUrl = "null"
    /\ result = <<>>
    /\ isProcessing = FALSE
    /\ error = "null"
    /\ canvas = NewCanvas
    /\ heatmap = NewCanvas
    /\ microtasks = <<>>
    /\ ctx2d = [out |-> TRUE, heat |-> TRUE]

InitGray ==
    /\ InitPageIdle
    /\ width = 0 /\ height = 0
    /\ \E n \in 1 .. MaxGrayPixels :
          data \in Buffers(n, ChannelSamples, ChannelSamples, ChannelSamples,
                           AlphaSamples)
    /\ input = data
    /\ out = <<>>
    /\ done = FALSE

CallToGrayscale ==
    /\ ~done
    /\ out' = toGrayscale(data)
    /\ done' = TRUE
    /\ UNCHANGED <<pageVars, width, height, data, input>>

SpecGray == InitGray /\ [][CallToGrayscale]_vars

\* C8: after toGrayscale, every pixel of the output has R = G = B equal to
\* round(0.2126 R + 0.7152 G + 0.0722 B) of the input pixel, within 0..255,
\* the input pixel's alpha, and the input buffer is as it was handed in.
C8_Grayscale ==
    done =>
        /\ Len(out) = Len(input)
        /\ data = input
        /\ \A p \in Pixels(input) :
              LET n == 2126 * Chan(input, p, 0) + 7152 * Chan(input, p, 1)
                         + 722 * Chan(input, p, 2)
                  y == Chan(out, p, 0)
              IN  /\ Chan(out, p, 1) = y
                  /\ Chan(out, p, 2) = y
                  /\ y \in 0 .. 255
                  \* y is an integer nearest n/10000 (at an exact tie the
                  \* code's double sum can fall on either side of .5)
                  /\ 10000 * y - 5000 <= n
                  /\ n <= 10000 * y + 5000
                  /\ Chan(out, p, 3) = Chan(input, p, 3)

\* A two-pixel buffer with distinct colours and alphas has been converted,
\* and a luma was rounded up.
C8_Witness ==
    /\ done
    /\ Len(input) = 8
    /\ Chan(input, 0, 3) # Chan(input, 1, 3)
    /\ Chan(out, 0, 0) # Chan(out, 1, 0)
    /\ \E p \in Pixels(input) :
          10000 * Chan(out, p, 0)
             > LumaNum(Chan(input, p, 0), Chan(input, p, 1), Chan(input, p, 2))

(***************************************************************************)
(* normalizeIntensity, analyze.ts:27-43                                    *)
(***************************************************************************)

LumaSamples == {0, 1, 100, 254, 255}

\* The red channel of every pixel, in pixel order: what lines 29-33 scan
RedChannel(d) == Array([p \in 1 .. Len(d) \div 4 |-> At(d, 4 * (p - 1))])

\* lines 28-33: let min = 255, max = 0, lowered and raised by every pixel
ScanMin(d) == IF Len(d) < 4 THEN 255 ELSE Min(255, MinSeq(RedChannel(d)))

ScanMax(d) == IF Len(d) < 4 THEN 0 ELSE Max(0, MaxSeq(RedChannel(d)))

\* line 38: n = Math.round(((y - min) / range) * 255)
StretchNoMin(y, min, range) == Round(y * 255, range)

Stretch(y, min, range) == Round((y - min) * 255, range)

\* lines 34-42: range = Math.max(1, max - min); a fresh array, the stretched
\* luma in R, G and B, alpha copied
normalizeIntensity(d) ==
    LET min == ScanMin(d)
        max == ScanMax(d)
        range == Max(1, max - min)
    IN  Array([k \in 1 .. Len(d) |->
            LET i == 4 * ((k - 1) \div 4)
                y == At(d, i)
                n == Stretch(y, min, range)
            IN  IF (k - 1) % 4 = 3 THEN At(d, i + 3) ELSE ToUint8Clamped(n)])

MaxNormPixels == 3

InitNorm ==
    /\ InitPageIdle
    /\ width = 0 /\ height = 0
    /\ \E n \in 1 .. MaxNormPixels :
          data \in GrayBuffers(n, LumaSamples, AlphaSamples)
    /\ input = data
    /\ out = <<>>
    /\ done = FALSE

CallNormalizeIntensity ==
    /\ ~done
    /\ out' = normalizeIntensity(data)
    /\ done' = TRUE
    /\ UNCHANGED <<pageVars, width, height, data, input>>

SpecNorm == InitNorm /\ [][CallNormalizeIntensity]_vars

\* C6: for a non-empty gray buffer, the output of normalizeIntensity has
\* minimum luma 0 and maximum luma 255 when the input holds two distinct
\* lumas, is 0 everywhere when the input holds one; every output luma is in
\* 0..255 and every alpha is the input's.
C6_NormalizationRange ==
    (done /\ Len(input) >= 4) =>
        LET inY == {Chan(input, p, 0) : p \in Pixels(input)}
            outY == {Chan(out, p, 0) : p \in Pixels(out)}
        IN  /\ Len(out) = Len(input)
            /\ outY \subseteq 0 .. 255
            /\ \A p \in Pixels(input) : Chan(out, p, 3) = Chan(input, p, 3)
            /\ Cardinality(inY) >= 2 =>
                  /\ 0 \in outY
                  /\ 255 \in outY
            /\ Cardinality(inY) = 1 => outY = {0}

\* A buffer of three distinct lumas, none of them 0 or 255, was stretched.
C6_Witness ==
    /\ done
    /\ Len(input) = 12
    /\ Cardinality({Chan(input, p, 0) : p \in Pixels(input)}) = 3
    /\ \A p \in Pixels(input) : Chan(input, p, 0) \notin {0, 255}
    /\ \E p \in Pixels(out) : Chan(out, p, 0) \notin {0, 255}

(***************************************************************************)
(* Fixed point.  A real v that the code holds in a double or a float is    *)
(* the integer nearest v * Q here.                                         *)
(***************************************************************************)

\* Fixed-point unit: 1/16
Q == 2 ^ 4

\* floor(sqrt(n)) for n >= 0, by bisection on lo <= sqrt(n) < hi
RECURSIVE ISqrtIn(_, _, _)
ISqrtIn(n, lo, hi) ==
    IF hi - lo <= 1 THEN lo
    ELSE LET mid == (lo + hi) \div 2
         IN  IF mid * mid <= n THEN ISqrtIn(n, mid, hi) ELSE ISqrtIn(n, lo, mid)

ISqrt(n) == ISqrtIn(n, 0, 46341)

\* Math.sqrt of the fixed-point v
SqrtQ(v) == ISqrt(v * Q)

\* Math.hypot(gx, gy) of two integers, in fixed point
Hypot(gx, gy) == ISqrt((gx * gx + gy * gy) * Q * Q)

(***************************************************************************)
(* computeSobelEdges, analyze.ts:56-89                                     *)
(***************************************************************************)

\* lines 57-66
gxKernel == <<-1, 0, 1, -2, 0, 2, -1, 0, 1>>

gyKernel == <<-1, -2, -1, 0, 0, 0, 1, 2, 1>>

\* line 68
clamp(x, min, max) == Max(min, Min(max, x))

\* lines 73-83: the kernel sum at (x, y); idx runs 0..8 with ky outer, kx inner
SobelSum(kernel, gray, w, h, x, y) ==
    LET term(idx) ==
            LET ky == (idx \div 3) - 1
                kx == (idx % 3) - 1
                px == clamp(x + kx, 0, w - 1)
                py == clamp(y + ky, 0, h - 1)
                i == (py * w + px) * 4
            IN  At(kernel, idx) * At(gray, i)
    IN  SumSeq([idx \in 1 .. 9 |-> term(idx - 1)])

\* lines 69-70: the cells the two loops visit
SobelVisitsAll(x, y, w, h) == TRUE

SobelVisits(x, y, w, h) == x >= 1 /\ x < w - 1 /\ y >= 1 /\ y < h - 1

\* lines 67-88: a zero-filled Float32Array(width * height), the visited cells
\* set to Math.hypot(gx, gy)
computeSobelEdges(gray, w, h) ==
    Array([k \in 1 .. w * h |->
        LET x == (k - 1) % w
            y == (k - 1) \div w
        IN  IF SobelVisits(x, y, w, h)
            THEN Hypot(SobelSum(gxKernel, gray, w, h, x, y),
                       SobelSum(gyKernel, gray, w, h, x, y))
            ELSE 0])

(***************************************************************************)
(* mean, std, percentiles, analyze.ts:91-113                               *)
(***************************************************************************)

\* lines 91-95 (values non-empty)
mean(values) == Round(SumSeq(values), Len(values))

\* lines 97-105: sqrt(sum of squared deviations / max(1, n - 1)); each square
\* is a fixed-point product
std(values, mu) ==
    LET s2 == SumSeq([i \in 1 .. Len(values) |->
                        Round((values[i] - mu) * (values[i] - mu), Q)])
    IN  SqrtQ(Round(s2, Max(1, Len(values) - 1)))

\* s with v inserted before the first element greater than v
RECURSIVE Insert(_, _)
Insert(s, v) ==
    IF s = <<>> THEN <<v>>
    ELSE IF v <= Head(s) THEN <<v>> \o s
    ELSE <<Head(s)>> \o Insert(Tail(s), v)

\* line 108: Array.from(values).sort((a, b) => a - b)
RECURSIVE SortAscending(_)
SortAscending(s) ==
    IF s = <<>> THEN <<>> ELSE Insert(SortAscending(Tail(s)), Head(s))

\* line 110: the index for percentile p in an array of n values
PercentileIndex(p, n) == Min(n - 1, Max(0, Round(p * (n - 1), 100)))

\* lines 107-113
percentiles(values, ps) ==
    LET arr == SortAscending(values)
    IN  [j \in 1 .. Len(ps) |-> At(arr, PercentileIndex(ps[j], Len(arr)))]

\* lines 155-159 of analyzeCtVsMri: the edge features
edgeFeatures(gray, w, h) ==
    LET edges == computeSobelEdges(gray, w, h)
        edgeMean == mean(edges)
        pcts == percentiles(edges, <<50, 90, 99>>)
    IN  [edges |-> edges,
         edgeMean |-> edgeMean,
         edgeStd |-> std(edges, edgeMean),
         edgeP50 |-> pcts[1],
         edgeP90 |-> pcts[2],
         edgeP99 |-> pcts[3]]

MaxSobelPixels == 12

SobelLumas == {0, 255}

InitSobel ==
    /\ InitPageIdle
    /\ \E w \in 1 .. MaxSobelPixels, h \in 1 .. MaxSobelPixels :
          /\ w * h <= MaxSobelPixels
          /\ width = w
          /\ height = h
          /\ data \in GrayBuffers(w * h, SobelLumas, {255})
    /\ input = data
    /\ out = <<>>
    /\ done = FALSE

CallComputeSobelEdges ==
    /\ ~done
    /\ out' = edgeFeatures(data, width, height)
    /\ done' = TRUE
    /\ UNCHANGED <<pageVars, width, height, data, input>>

SpecSobel == InitSobel /\ [][CallComputeSobelEdges]_vars

\* Luma at column x, row y of the argument buffer
InLuma(x, y) == Chan(input, y * width + x, 0)

\* C10: the edge field has width*height cells, all >= 0; the cells of row 0,
\* row height-1, column 0 and column width-1 are 0; every other cell is the
\* magnitude of (gx, gy) of the two Sobel kernels over the cell's 3x3
\* neighbourhood; and the mean and the median are taken over all the cells,
\* the ring of zeros included.
C10_SobelField ==
    done =>
        LET e == out.edges
            n == width * height
            zeros == Cardinality({k \in 1 .. n : e[k] = 0})
        IN  /\ Len(e) = n
            /\ \A k \in 1 .. n : e[k] >= 0
            /\ \A x \in 0 .. width - 1, y \in 0 .. height - 1 :
                  LET m == e[y * width + x + 1]
                  IN  IF x = 0 \/ y = 0 \/ x = width - 1 \/ y = height - 1
                      THEN m = 0
                      ELSE LET gx == (InLuma(x + 1, y - 1) + 2 * InLuma(x + 1, y)
                                        + InLuma(x + 1, y + 1))
                                     - (InLuma(x - 1, y - 1) + 2 * InLuma(x - 1, y)
                                        + InLuma(x - 1, y + 1))
                               gy == (InLuma(x - 1, y + 1) + 2 * InLuma(x, y + 1)
                                        + InLuma(x + 1, y + 1))
                                     - (InLuma(x - 1, y - 1) + 2 * InLuma(x, y - 1)
                                        + InLuma(x + 1, y - 1))
                               sq == (gx * gx + gy * gy) * Q * Q
                           IN  m * m <= sq /\ sq < (m + 1) * (m + 1)
            \* the mean divides by every cell
            /\ 2 * n * out.edgeMean - n <= 2 * SumSeq(e)
            /\ 2 * SumSeq(e) < 2 * n * out.edgeMean + n
            \* the median is 0 as soon as the zeros fill the lower half
            /\ 2 * zeros > n + 1 => out.edgeP50 = 0

\* A 4x3 field was computed whose two inner cells are non-zero and differ,
\* with a lit pixel on the outer ring.
C10_Witness ==
    /\ done
    /\ width = 4 /\ height = 3
    /\ out.edges[6] > 0
    /\ out.edges[7] > 0
    /\ out.edges[6] # out.edges[7]
    /\ InLuma(0, 0) = 255
    /\ out.edgeMean > 0
    /\ out.edgeP50 = 0

(***************************************************************************)
(* computeHistogram and the histogram features, analyze.ts:45-54, 150-153  *)
(***************************************************************************)

\* lines 46-52.  hist[i] is the fraction bins[i + 1] / count, kept as the
\* exact pair rather than a rounded quotient.
computeHistogram(d) ==
    [bins |-> Array([i \in 1 .. 256 |->
                 Cardinality({p \in Pixels(d) : Chan(d, p, 0) = i - 1})]),
     count |-> Len(d) \div 4]

RECURSIVE FloorLog2(_)
FloorLog2(k) == IF k < 2 THEN 0 ELSE 1 + FloorLog2(k \div 2)

\* The fraction bits of log2(m / 16384) for 16384 <= m < 32768, by repeated
\* squaring; the result is in units of 2^-bits.
RECURSIVE Log2Bits(_, _)
Log2Bits(m, bits) ==
    IF bits = 0 THEN 0
    ELSE LET sq == (m * m) \div 16384
         IN  IF sq >= 32768
             THEN 2 ^ (bits - 1) + Log2Bits(sq \div 2, bits - 1)
             ELSE Log2Bits(sq, bits - 1)

\* Math.log2(k) for an integer k >= 1, in units of 1/1024
Log2(k) ==
    LET e == FloorLog2(k)
    IN  1024 * e + Log2Bits((k * 16384) \div (2 ^ e), 10)

\* line 151: hist.reduce((s, p, i) => s + p * i, 0)
histMeanOf(hist) ==
    Round(SumSeq([i \in 1 .. 256 |-> hist.bins[i] * (i - 1)]) * Q, hist.count)

\* line 152: hist.reduce((s, p, i) => s + p * (i - histMean) * (i - histMean), 0)
histVarOf(hist, histMean) ==
    Round(SumSeq([i \in 1 .. 256 |->
                    hist.bins[i] * ((i - 1) * Q - histMean)
                                 * ((i - 1) * Q - histMean)]),
          hist.count * Q)

\* line 153: -hist.reduce((s, p) => (p > 0 ? s + p * Math.log2(p) : s), 0)
histEntropyOf(hist) ==
    Round(- SumSeq([i \in 1 .. 256 |->
                      IF hist.bins[i] > 0
                      THEN hist.bins[i] * (Log2(hist.bins[i]) - Log2(hist.count))
                      ELSE 0]) * Q,
          hist.count * 1024)

(***************************************************************************)
(* computeTextureEnergy, analyze.ts:115-126                                *)
(***************************************************************************)

computeTextureEnergy(gray, w, h) ==
    LET cell(k) ==
            LET x == (k - 1) % w
                y == (k - 1) \div w
                i == (y * w + x) * 4
            IN  IF x < w - 1 /\ y < h - 1
                THEN Abs(At(gray, i) - At(gray, i + 4))
                       + Abs(At(gray, i) - At(gray, i + w * 4))
                ELSE 0
    IN  Round(SumSeq([k \in 1 .. w * h |-> cell(k)]) * Q, w * h)

(***************************************************************************)
(* logistic and the classifier, analyze.ts:128-130, 178-199                *)
(***************************************************************************)

\* Probabilities and exponentials are in units of 1/P
P == 2 ^ 13

\* A score is in units of 1/ScoreUnit: a feature (1/Q) times a weight (1/10000)
ScoreUnit == Q * 10000

\* e^-f for 0 <= f <= 1 (f in units of 1/P): the Taylor series, term k + 1
\* being term k times -f / (k + 1)
RECURSIVE ExpSeries(_, _, _)
ExpSeries(f, term, k) ==
    IF term = 0 \/ k > 12 THEN 0
    ELSE term + ExpSeries(f, Round(term * (-f), P * (k + 1)), k + 1)

ExpNegFrac(f) == ExpSeries(f, P, 0)

\* e^-n for a natural n
RECURSIVE ExpNegInt(_)
ExpNegInt(n) ==
    IF n = 0 THEN P
    ELSE LET r == ExpNegInt(n - 1)
         IN  IF r = 0 THEN 0 ELSE Round(r * ExpNegFrac(P), P)

\* Math.exp(-a) for a score a >= 0
ExpNeg(a) ==
    Round(ExpNegInt(a \div ScoreUnit)
            * ExpNegFrac(Round((a % ScoreUnit) * P, ScoreUnit)), P)

\* lines 128-130: 1 / (1 + Math.exp(-x)).  For x < 0, exp(-x) is 1/t with
\* t = exp(x), and the quotient is t / (t + 1).
logistic(x) ==
    IF x >= 0
    THEN Round(P * P, P + ExpNeg(x))
    ELSE LET t == ExpNeg(-x) IN Round(t * P, t + P)

\* lines 178-188, times 10000
weights ==
    [histMean |-> -100, histVar |-> -20, histEntropy |-> 8000,
     edgeMean |-> -150, edgeStd |-> -200, edgeP50 |-> -10, edgeP90 |-> -8,
     edgeP99 |-> -5, textureE |-> -40]

\* line 189, times 10000
bias == -10000

\* Object.keys(features), in insertion order (lines 166-176)
featureKeys ==
    <<"histMean", "histVar", "histEntropy", "edgeMean", "edgeStd", "edgeP50",
      "edgeP90", "edgeP99", "textureE">>

\* lines 191-194
scoreOf(features) ==
    bias * Q + SumSeq([j \in 1 .. 9 |->
                         features[featureKeys[j]] * weights[featureKeys[j]]])

\* line 196: probMRI > 0.5
IsMriOrEqual(probMRI) == 2 * probMRI >= P

IsMri(probMRI) == 2 * probMRI > P

\* lines 195-197
classify(score) ==
    LET probMRI == logistic(score)
        modality == IF IsMri(probMRI) THEN "MRI" ELSE "CT"
    IN  [modality |-> modality,
         confidence |-> IF modality = "MRI" THEN probMRI ELSE P - probMRI]

MaxScoreSteps == 400

\* Scores from -MaxScoreSteps/20 to MaxScoreSteps/20 in steps of 0.05, and the
\* scores within three units of 0
ScoreSamples ==
    {k * (ScoreUnit \div 20) : k \in -MaxScoreSteps .. MaxScoreSteps}
        \cup (-3 .. 3)

InitClassify ==
    /\ InitPageIdle
    /\ width = 0 /\ height = 0
    /\ data \in ScoreSamples
    /\ input = data
    /\ out = <<>>
    /\ done = FALSE

CallClassify ==
    /\ ~done
    /\ out' = classify(data)
    /\ done' = TRUE
    /\ UNCHANGED <<pageVars, width, height, data, input>>

SpecClassify == InitClassify /\ [][CallClassify]_vars

\* C5: for every score, the confidence is between 0.5 and 1.0 inclusive, the
\* modality is MRI exactly when probMRI > 0.5 and CT otherwise (probMRI = 0.5
\* included), and the confidence is probMRI for MRI and 1 - probMRI for CT.
C5_ConfidenceBound ==
    done =>
        LET probMRI == logistic(input)
        IN  /\ 2 * out.confidence >= P
            /\ out.confidence <= P
            /\ out.modality \in {"CT", "MRI"}
            /\ out.modality = "MRI" <=> 2 * probMRI > P
            /\ out.modality = "MRI" => out.confidence = probMRI
            /\ out.modality = "CT" => out.confidence = P - probMRI

\* The score 0, whose probMRI is exactly 0.5, was classified.
C5_Witness ==
    /\ done
    /\ input = 0
    /\ 2 * logistic(input) = P
    /\ out.modality = "CT"
    /\ 2 * out.confidence = P

(***************************************************************************)
(* analyzeCtVsMri, analyze.ts:132-200                                      *)
(***************************************************************************)

\* line 133: the side of the analysis canvas.  The program's value is 256;
\* the model's canvases are this many pixels a side.
size == 4

\* lines 150, 156, 162: the buffer the features are computed from
featureInputGray(gray, norm) == gray

featureInput(gray, norm) == norm

\* lines 143-199, from the pixels ctx.getImageData returns after the image
\* was drawn at size x size (lines 139-141).  canvas is what line 147 puts
\* back on the output canvas; hist and score are the locals of those names.
analyzeCtVsMri(pixels) ==
    LET gray == toGrayscale(pixels)
        norm == normalizeIntensity(gray)
        src == featureInput(gray, norm)
        hist == computeHistogram(src)
        histMean == histMeanOf(hist)
        edge == edgeFeatures(src, size, size)
        features ==
            [histMean |-> histMean,
             histVar |-> histVarOf(hist, histMean),
             histEntropy |-> histEntropyOf(hist),
             edgeMean |-> edge.edgeMean,
             edgeStd |-> edge.edgeStd,
             edgeP50 |-> edge.edgeP50,
             edgeP90 |-> edge.edgeP90,
             edgeP99 |-> edge.edgeP99,
             textureE |-> computeTextureEnergy(src, size, size)]
        score == scoreOf(features)
        label == classify(score)
    IN  [modality |-> label.modality,
         confidence |-> label.confidence,
         features |-> features,
         score |-> score,
         hist |-> hist,
         edges |-> edge.edges,
         canvas |-> norm]

\* A size x size RGBA image whose pixel at column x, row y is colour(x, y)
Image(colour(_, _)) ==
    Array([k \in 1 .. 4 * size * size |->
        LET p == (k - 1) \div 4
        IN  colour(p % size, p \div size)[((k - 1) % 4) + 1]])

Uniform(c) == LET colour(x, y) == c IN Image(colour)

Checker(c0, c1) ==
    LET colour(x, y) == IF (x + y) % 2 = 0 THEN c0 ELSE c1 IN Image(colour)

LeftRight(c0, c1) ==
    LET colour(x, y) == IF 2 * x < size THEN c0 ELSE c1 IN Image(colour)

Gray(v) == <<v, v, v, 255>>

GraySamples == {0, 64, 128, 200, 255}

\* The rasterised images analyzeCtVsMri is checked on
TestImages ==
    {Uniform(<<r, g, b, 255>>) : r \in {0, 128, 255}, g \in {0, 128, 255},
                                 b \in {0, 128, 255}}
      \cup {Uniform(Gray(v)) : v \in GraySamples}
      \cup {Checker(Gray(u), Gray(v)) : u \in GraySamples, v \in GraySamples}
      \cup {LeftRight(Gray(u), Gray(v)) : u \in GraySamples, v \in GraySamples}

InitAnalyze ==
    /\ InitPageIdle
    /\ width = size /\ height = size
    /\ data \in TestImages
    /\ input = data
    /\ out = <<>>
    /\ done = FALSE

CallAnalyzeCtVsMri ==
    /\ ~done
    /\ out' = analyzeCtVsMri(data)
    /\ done' = TRUE
    /\ UNCHANGED <<pageVars, width, height, data, input>>

SpecAnalyze == InitAnalyze /\ [][CallAnalyzeCtVsMri]_vars

\* The argument is the uniform gray image of luma 128
IsGray128 == input = Uniform(Gray(128))

\* The edge and texture features of the result are all 0
FlatEdges ==
    /\ \A k \in 1 .. size * size : out.edges[k] = 0
    /\ out.features.edgeMean = 0
    /\ out.features.edgeStd = 0
    /\ out.features.edgeP50 = 0
    /\ out.features.edgeP90 = 0
    /\ out.features.edgeP99 = 0
    /\ out.features.textureE = 0

\* The histogram of the result is the single spike at luma v
SpikeAt(v) ==
    \A i \in 0 .. 255 :
        out.hist.bins[i + 1] = IF i = v THEN out.hist.count ELSE 0

\* C4 as stated: for the uniform gray image of luma 128 the histogram is a
\* single spike at bin 128 (histMean 128, histVar 0, histEntropy 0), the
\* edge features and textureE are 0, the score is -2.28 and the label is CT.
C4_AsStated ==
    (done /\ IsGray128) =>
        /\ SpikeAt(128)
        /\ out.features.histMean = 128 * Q
        /\ out.features.histVar = 0
        /\ out.features.histEntropy = 0
        /\ FlatEdges
        /\ 100 * out.score = -228 * ScoreUnit
        /\ out.modality = "CT"

\* C4, amended: for the uniform gray image of luma 128 the features are
\* taken from the normalized buffer, which is 0 everywhere, so the histogram
\* is a single spike at bin 0 (histMean 0, histVar 0, histEntropy 0), the
\* edge features and textureE are 0, the score is the bias -1.0 and the
\* label is CT.
C4_UniformGray ==
    (done /\ IsGray128) =>
        /\ \A p \in Pixels(out.canvas) : Chan(out.canvas, p, 0) = 0
        /\ SpikeAt(0)
        /\ out.features.histMean = 0
        /\ out.features.histVar = 0
        /\ out.features.histEntropy = 0
        /\ FlatEdges
        /\ out.score = -1 * ScoreUnit
        /\ out.modality = "CT"
        /\ 2 * out.confidence > P

\* The uniform gray image of luma 128 was analyzed.
C4_Witness ==
    /\ done
    /\ IsGray128
    /\ out.hist.count = size * size
    /\ out.modality = "CT"

(***************************************************************************)
(* drawGradCAMLikeHeatmap, analyze.ts:202-266                              *)
(***************************************************************************)

\* lines 216-217
window == 5

radius == window \div 2

\* A variance is an exact multiple of 1/(count * count), count being the 25
\* samples of a window: the model holds the variance times VarUnit.
VarUnit == (window * window) * (window * window)

\* A normalized variance and the colormap's powers are in units of 1/V
V == 2 ^ 7

\* The colormap works in units of 1/W
W == 2 ^ 14

\* lines 221-234: the window around (x, y), its coordinates clamped; the
\* value is (sum2 / count - mu * mu) * VarUnit = count * sum2 - sum * sum
localVariance(gray, w, h, x, y) ==
    LET offsets == -radius .. radius
        sample(dx, dy) ==
            LET xx == Min(w - 1, Max(0, x + dx))
                yy == Min(h - 1, Max(0, y + dy))
            IN  At(gray, (yy * w + xx) * 4)
        vals == Array([j \in 1 .. window * window |->
                        sample(((j - 1) % window) - radius,
                               ((j - 1) \div window) - radius)])
        count == Len(vals)
        sum == SumSeq(vals)
        sum2 == SumSeq([j \in 1 .. count |-> vals[j] * vals[j]])
    IN  count * sum2 - sum * sum

\* line 246: range = Math.max(1e-6, max - min), as the fraction num/den of
\* VarUnit-ths (1e-6 is VarUnit/1000000 = 1/1600 of them, below the least
\* non-zero difference, which is 1)
heatRangeFloorOne(min, max) ==
    IF max - min >= VarUnit THEN [num |-> max - min, den |-> 1]
    ELSE [num |-> VarUnit, den |-> 1]

heatRange(min, max) ==
    IF max - min >= 1 THEN [num |-> max - min, den |-> 1]
    ELSE [num |-> 1, den |-> 1000000 \div VarUnit]

\* <<v, sqrt(v), sqrt(sqrt(v)), ...>>: v followed by its k successive square
\* roots (v in units of 1/W)
RECURSIVE Roots(_, _)
Roots(v, k) ==
    IF k = 0 THEN <<v>> ELSE <<v>> \o Roots(ISqrt(v * W), k - 1)

\* The product of the roots rs[k + 1], k in ks: v to the power of the sum of
\* the 2^-k
RECURSIVE PowRoots(_, _)
PowRoots(rs, ks) ==
    IF ks = <<>> THEN W
    ELSE Round(rs[Head(ks) + 1] * PowRoots(rs, Tail(ks)), W)

\* Math.pow(v, 0.35): 0.35 is 1/4 + 1/16 + 1/32 + 1/256 + 1/512 to 0.0004
Pow035(rs) == PowRoots(rs, <<2, 4, 5, 8, 9>>)

\* Math.pow(v, 1.2): 1.2 is 1 + 1/8 + 1/16 + 1/128 + 1/256 to 0.0008
Pow12(rs) == PowRoots(rs, <<0, 3, 4, 7, 8>>)

\* lines 255-262: the colour of the normalized variance v (units of 1/V)
colormap(v) ==
    LET x == v * (W \div V)
        rs == Roots(x, 9)
    IN  <<Min(255, Max(0, Round(255 * Pow035(rs), W))),
          Min(255, Max(0, Round(Round(255 * Pow12(rs), W) * (W - x), W))),
          Min(255, Max(0, Round(255 * (W - x), W))),
          180>>

\* lines 210-265 on the pixels of the source canvas: the variance field, the
\* normalized field and the image put on the heatmap canvas
heatmapOf(src, w, h) ==
    LET variance == Array([k \in 1 .. w * h |->
                            localVariance(src, w, h, (k - 1) % w, (k - 1) \div w)])
        min == MinSeq(variance)
        max == MaxSeq(variance)
        range == heatRange(min, max)
        norm == Array([k \in 1 .. w * h |->
                        Round((variance[k] - min) * range.den * V, range.num)])
        colours == Array([k \in 1 .. w * h |-> colormap(norm[k])])
    IN  [variance |-> variance,
         norm |-> norm,
         image |-> Array([k \in 1 .. 4 * w * h |->
                            colours[((k - 1) \div 4) + 1][((k - 1) % 4) + 1]])]

MaxHeatPixels == 6

HeatLumas == {0, 1, 255}

InitHeat ==
    /\ InitPageIdle
    /\ \E w \in 1 .. MaxHeatPixels, h \in 1 .. MaxHeatPixels :
          /\ w * h <= MaxHeatPixels
          /\ width = w
          /\ height = h
          /\ data \in GrayBuffers(w * h, HeatLumas, {255})
    /\ input = data
    /\ out = <<>>
    /\ done = FALSE

CallDrawHeatmap ==
    /\ ~done
    /\ out' = heatmapOf(data, width, height)
    /\ done' = TRUE
    /\ UNCHANGED <<pageVars, width, height, data, input>>

SpecHeat == InitHeat /\ [][CallDrawHeatmap]_vars

\* C7: for a uniform source the variance field is 0 everywhere and every
\* heatmap pixel is (0, 0, 255) with alpha 180; for a source whose variance
\* field is not constant the normalized field has minimum 0 and maximum 1.
C7_Heatmap ==
    done =>
        LET n == width * height
            uniform == \A p \in Pixels(input) : Chan(input, p, 0) = Chan(input, 0, 0)
            vs == {out.variance[k] : k \in 1 .. n}
            ns == {out.norm[k] : k \in 1 .. n}
        IN  /\ Len(out.image) = 4 * n
            /\ uniform =>
                  /\ vs = {0}
                  /\ \A p \in Pixels(out.image) :
                        /\ Chan(out.image, p, 0) = 0
                        /\ Chan(out.image, p, 1) = 0
                        /\ Chan(out.image, p, 2) = 255
                        /\ Chan(out.image, p, 3) = 180
            /\ Cardinality(vs) >= 2 =>
                  /\ 0 \in ns
                  /\ V \in ns
                  /\ \A v \in ns : 0 <= v /\ v <= V

\* A uniform source of luma 255 was rendered.
C7_WitnessUniform ==
    /\ done
    /\ width * height = MaxHeatPixels
    /\ \A p \in Pixels(input) : Chan(input, p, 0) = 255

\* A source was rendered whose variances differ by less than 1 and take at
\* least three values.
C7_Witness ==
    /\ done
    /\ Cardinality({out.variance[k] : k \in 1 .. width * height}) >= 3
    /\ MaxSeq(out.variance) - MinSeq(out.variance) < VarUnit
    /\ \E k \in 1 .. width * height : out.norm[k] \notin {0, V}

(***************************************************************************)
(* The page, part_000:5-131                                                *)
(*                                                                         *)
(* A click or a file selection is a task of the browser's event loop; the  *)
(* code after an await of onAnalyze is a microtask.  Neither function that *)
(* onAnalyze awaits contains an await of its own (analyze.ts:132-266), so  *)
(* each returns a promise that is already settled and the continuation is  *)
(* queued at once.  The event loop runs every queued microtask before the  *)
(* next task (EventLoopIdle).                                              *)
(***************************************************************************)

\* The files the user can pick; the last one is not a decodable image
Files == {"scanA", "scanB", "scanC", "notAnImage"}

\* Whether the <img> showing the file decodes (line 107); drawImage throws
\* on an <img> whose load failed (analyze.ts:140)
Decodable(file) == file # "notAnImage"

\* The pixels ctx.getImageData returns once the file's image has been drawn
\* at size x size (analyze.ts:139-141)
Raster(file) ==
    IF file = "scanA" THEN Uniform(Gray(128))
    ELSE IF file = "scanB" THEN Checker(Gray(0), Gray(255))
    ELSE LeftRight(Gray(64), Gray(200))

InitCallIdle ==
    /\ width = 0 /\ height = 0
    /\ data = <<>>
    /\ input = <<>>
    /\ out = <<>>
    /\ done = TRUE

\* lines 6-16, and the environment's canvases
Init ==
    /\ imageUrl = "null"
    /\ result = <<>>
    /\ isProcessing = FALSE
    /\ error = "null"
    /\ canvas = NewCanvas
    /\ heatmap = NewCanvas
    /\ microtasks = <<>>
    /\ ctx2d \in [out : BOOLEAN, heat : BOOLEAN]
    /\ InitCallIdle

\* line 27
canAnalyzeWhileProcessing == imageUrl # "null"

canAnalyze == imageUrl # "null" /\ ~isProcessing

\* No continuation is queued: the event loop may run the next task
EventLoopIdle == microtasks = <<>>

\* lines 18-25.  file = "none": the dialog was closed with no file (line 20)
onFileChange ==
    \E file \in Files \cup {"none"} :
        /\ IF file = "none"
           THEN UNCHANGED <<imageUrl, result, error>>
           ELSE /\ imageUrl' = file
                /\ result' = <<>>
                /\ error' = "null"
        /\ UNCHANGED <<isProcessing, canvas, heatmap, microtasks, ctx2d, callVars>>

\* analyze.ts:147, 199: the normalized image is on the output canvas and the
\* promise is fulfilled with { modality, confidence, features }; of names
\* the file the value was computed from
analyzeDone(file, res) ==
    [canvas |-> [width |-> size, height |-> size,
                 image |-> res.canvas, of |-> file],
     promise |-> [ok |-> TRUE,
                  value |-> [of |-> file,
                             modality |-> res.modality,
                             confidence |-> res.confidence,
                             features |-> res.features]]]

\* analyze.ts:132-200 as called at part_000:34: what the call leaves on the
\* output canvas and the promise it returns
analyzeCall(file) ==
    IF ~ctx2d.out
    THEN [canvas |-> ResetCanvas(size, size),
          promise |-> [ok |-> FALSE, message |-> "Canvas 2D not supported"]]
    ELSE IF ~Decodable(file)
    THEN [canvas |-> ResetCanvas(size, size),
          promise |-> [ok |-> FALSE, message |-> "InvalidStateError"]]
    ELSE analyzeDone(file, analyzeCtVsMri(Raster(file)))

\* What getImageData reads from a canvas: a canvas nothing was drawn on
\* reads as transparent black
ReadCanvas(src) ==
    IF src.image = <<>>
    THEN Array([k \in 1 .. 4 * src.width * src.height |-> 0])
    ELSE src.image

\* The canvases analyzeCtVsMri can leave behind for the files of the dialog
PageCanvases ==
    {ReadCanvas(ResetCanvas(size, size))}
        \cup {analyzeCtVsMri(Raster(file)).canvas :
                 file \in {f \in Files : Decodable(f)}}

\* drawGradCAMLikeHeatmap is a function of the source pixels alone: its
\* images on the canvases above, computed once
PageHeatmaps ==
    {[src |-> pixels, image |-> heatmapOf(pixels, size, size).image] :
        pixels \in PageCanvases}

drawnHeatmap(pixels, w, h) ==
    IF \E e \in PageHeatmaps : e.src = pixels
    THEN (CHOOSE e \in PageHeatmaps : e.src = pixels).image
    ELSE heatmapOf(pixels, w, h).image

\* analyze.ts:202-266 as called at part_000:36: what the call leaves on the
\* heatmap canvas and the promise it returns
heatmapCall(src) ==
    IF ~ctx2d.out \/ ~ctx2d.heat
    THEN [heatmap |-> ResetCanvas(src.width, src.height),
          promise |-> [ok |-> FALSE, message |-> "Canvas 2D not supported"]]
    ELSE [heatmap |-> [width |-> src.width, height |-> src.height,
                       image |-> drawnHeatmap(ReadCanvas(src), src.width,
                                              src.height),
                       of |-> src.of],
          promise |-> [ok |-> TRUE]]

\* lines 39-41: isProcessing once the try statement is left
isProcessingAfterTryOnly(ok) == ~ok

isProcessingAfter(ok) == FALSE

\* lines 31-34: the state is set, analyzeCtVsMri is called and onAnalyze
\* waits for the promise the call returned
onAnalyzeStart(call) ==
    /\ isProcessing' = TRUE
    /\ error' = "null"
    /\ canvas' = call.canvas
    /\ microtasks' = Append(microtasks,
                            [at |-> "line 34", promise |-> call.promise])

\* lines 35-36: the result is set, drawGradCAMLikeHeatmap is called and
\* onAnalyze waits for the promise the call returned
onAnalyzeResult(value, call) ==
    /\ result' = <<value>>
    /\ heatmap' = call.heatmap
    /\ microtasks' = Append(Tail(microtasks),
                            [at |-> "line 36", promise |-> call.promise])
    /\ UNCHANGED <<error, isProcessing>>

\* lines 29-34: onAnalyze up to its first await
onAnalyze ==
    /\ IF imageUrl = "null"
       THEN UNCHANGED <<isProcessing, error, canvas, microtasks>>
       ELSE onAnalyzeStart(analyzeCall(imageUrl))
    /\ UNCHANGED <<imageUrl, result, heatmap, ctx2d, callVars>>

\* onAnalyze resumes after line 34: lines 35-36, or lines 37-41 when the
\* promise was rejected
ResumeAfterAnalyze ==
    /\ microtasks # <<>>
    /\ Head(microtasks).at = "line 34"
    /\ LET promise == Head(microtasks).promise
       IN  IF promise.ok
           THEN onAnalyzeResult(promise.value, heatmapCall(canvas))
           ELSE /\ error' = promise.message
                /\ isProcessing' = isProcessingAfter(FALSE)
                /\ microtasks' = Tail(microtasks)
                /\ UNCHANGED <<result, heatmap>>
    /\ UNCHANGED <<imageUrl, canvas, ctx2d, callVars>>

\* onAnalyze resumes after line 36: lines 37-41
ResumeAfterHeatmap ==
    /\ microtasks # <<>>
    /\ Head(microtasks).at = "line 36"
    /\ LET promise == Head(microtasks).promise
       IN  /\ error' = IF promise.ok THEN error ELSE promise.message
           /\ isProcessing' = isProcessingAfter(promise.ok)
           /\ microtasks' = Tail(microtasks)
    /\ UNCHANGED <<imageUrl, result, canvas, heatmap, ctx2d, callVars>>

\* The user picks a file, or closes the dialog: a task
SelectFile == EventLoopIdle /\ onFileChange

\* The user clicks the Analyze button (line 70: a disabled button takes no
\* click): a task
ClickAnalyze == EventLoopIdle /\ canAnalyze /\ onAnalyze

RunMicrotask == ResumeAfterAnalyze \/ ResumeAfterHeatmap

Next == SelectFile \/ ClickAnalyze \/ ResumeAfterAnalyze \/ ResumeAfterHeatmap

Spec == Init /\ [][Next]_vars

\* The microtask queue is always drained
FairSpec == Spec /\ WF_vars(RunMicrotask)

\* The page if a task could run at every await of onAnalyze.  Every
\* behaviour of Spec is one of these; a property of all of them holds under
\* every interleaving of the user's events with the awaits.
SelectFileAnyTime == onFileChange

ClickAnalyzeAnyTime == canAnalyze /\ onAnalyze

NextInterleaved ==
    SelectFileAnyTime \/ ClickAnalyzeAnyTime \/ ResumeAfterAnalyze
        \/ ResumeAfterHeatmap

SpecInterleaved == Init /\ [][NextInterleaved]_vars

\* C1: a run is all-or-nothing: once no run is in flight, the page never
\* holds an error together with a result, and a result is only there with
\* the heatmap of the same run.
C1_AllOrNothing ==
    ~isProcessing =>
        /\ ~(error # "null" /\ result # <<>>)
        /\ result # <<>> =>
              /\ heatmap.image # <<>>
              /\ heatmap.of = result[1].of

\* C2: a result, and what the preprocessed and the heatmap canvas show, was
\* computed from the image now selected, never from an earlier selection.
C2_CurrentImageOnly ==
    /\ result # <<>> => result[1].of = imageUrl
    /\ canvas.image # <<>> => canvas.of = imageUrl
    /\ heatmap.image # <<>> => heatmap.of = imageUrl

\* C3: at most one run of onAnalyze is in flight, and isProcessing is true
\* exactly while one is, whatever the user does at its awaits.
C3_SingleRun ==
    /\ Len(microtasks) <= 1
    /\ isProcessing <=> microtasks # <<>>

\* A run is waiting for the heatmap while the user has already picked
\* another file.
C3_Witness ==
    /\ microtasks # <<>>
    /\ Head(microtasks).at = "line 36"
    /\ result # <<>>
    /\ result[1].of # imageUrl
    /\ ~canAnalyze

\* C9: every run that starts ends with isProcessing false and the Analyze
\* button enabled again, and nothing starts while no image is mounted.
C9_RunEnds ==
    /\ isProcessing ~> (~isProcessing /\ canAnalyze)
    /\ [](imageUrl = "null" =>
            (~isProcessing /\ error = "null" /\ microtasks = <<>>))

\* A run has ended in its catch block: an error is shown and the button is
\* enabled again.
C9_Witness ==
    /\ error # "null"
    /\ ~isProcessing
    /\ canAnalyze
    /\ microtasks = <<>>

====
